---- MODULE Spec2Model ----
(***************************************************************************)
(* Model of server.js of beautiful-noise: the upload handler, the metadata *)
(* helpers, the listing and search handlers and the static /media route.   *)
(* server.js holds two versions of the server, one after the other (lines  *)
(* 1-150 and 152-300).  They differ in the name of the stored thumbnail    *)
(* only (line 78 against lines 230-231); the variable version says which   *)
(* of the two is running, and the line numbers quoted are of the second.   *)
(*                                                                         *)
(* Strings are sequences of one-character strings, so that extname,       *)
(* startsWith, toLowerCase, trim and includes are computed as the runtime  *)
(* computes them.  The disk is a function from paths (sequences of path    *)
(* components) to file contents; the content of a file submitted by        *)
(* request r in field f is the pair <<r, f>>.                              *)
(***************************************************************************)
EXTENDS Integers, Sequences, FiniteSets, TLC

\* ------------------------------------------------------------------ bounds
NumReqs == 2
MaxRecs == 3
MaxFaults == 1

\* ------------------------------------------------------------- JS strings
UC == <<"A","B","C","D","E","F","G","H","I","J","K","L","M",
        "N","O","P","Q","R","S","T","U","V","W","X","Y","Z">>
LC == <<"a","b","c","d","e","f","g","h","i","j","k","l","m",
        "n","o","p","q","r","s","t","u","v","w","x","y","z">>
DigitChars == <<"0","1","2","3","4","5","6","7","8","9">>
\* The characters String.prototype.trim removes: the WhiteSpace and
\* LineTerminator productions of ECMAScript.  A character the string syntax
\* here cannot write is named by its JavaScript escape.
WhiteSpace ==
  {" ", "\t", "\n", "\r", "\f", "\\v", "\\u00A0", "\\u1680", "\\u2000", "\\u2001",
   "\\u2002", "\\u2003", "\\u2004", "\\u2005", "\\u2006", "\\u2007", "\\u2008",
   "\\u2009", "\\u200A", "\\u2028", "\\u2029", "\\u202F", "\\u205F", "\\u3000",
   "\\uFEFF"}

\* JS values that are not strings
null == <<"null">>
undefined == <<"undefined">>

Falsy(v) == v = undefined \/ v = null \/ v = <<>>

\* a || b
OrElse(a, b) == IF Falsy(a) THEN b ELSE a

\* The strings of the model are made of the characters of ASCII, of Latin-1
\* (U+00A0-U+00FF), of modern Greek (U+0384-U+03CE), U+0130, U+0307, the
\* Kelvin, Angstrom and Ohm signs, and the characters of WhiteSpace; a
\* character that is not ASCII is named by its JavaScript escape.  UCX holds
\* the capitals among them beyond A-Z and LCX their lower-case forms, from
\* UnicodeData.txt.
UCX ==
  <<"\\u00C0", "\\u00C1", "\\u00C2", "\\u00C3", "\\u00C4", "\\u00C5", "\\u00C6", "\\u00C7",
    "\\u00C8", "\\u00C9", "\\u00CA", "\\u00CB", "\\u00CC", "\\u00CD", "\\u00CE", "\\u00CF",
    "\\u00D0", "\\u00D1", "\\u00D2", "\\u00D3", "\\u00D4", "\\u00D5", "\\u00D6", "\\u00D8",
    "\\u00D9", "\\u00DA", "\\u00DB", "\\u00DC", "\\u00DD", "\\u00DE", "\\u0386", "\\u0388",
    "\\u0389", "\\u038A", "\\u038C", "\\u038E", "\\u038F", "\\u0391", "\\u0392", "\\u0393",
    "\\u0394", "\\u0395", "\\u0396", "\\u0397", "\\u0398", "\\u0399", "\\u039A", "\\u039B",
    "\\u039C", "\\u039D", "\\u039E", "\\u039F", "\\u03A0", "\\u03A1", "\\u03A3", "\\u03A4",
    "\\u03A5", "\\u03A6", "\\u03A7", "\\u03A8", "\\u03A9", "\\u03AA", "\\u03AB", "\\u2126",
    "\\u212A", "\\u212B">>
LCX ==
  <<"\\u00E0", "\\u00E1", "\\u00E2", "\\u00E3", "\\u00E4", "\\u00E5", "\\u00E6", "\\u00E7",
    "\\u00E8", "\\u00E9", "\\u00EA", "\\u00EB", "\\u00EC", "\\u00ED", "\\u00EE", "\\u00EF",
    "\\u00F0", "\\u00F1", "\\u00F2", "\\u00F3", "\\u00F4", "\\u00F5", "\\u00F6", "\\u00F8",
    "\\u00F9", "\\u00FA", "\\u00FB", "\\u00FC", "\\u00FD", "\\u00FE", "\\u03AC", "\\u03AD",
    "\\u03AE", "\\u03AF", "\\u03CC", "\\u03CD", "\\u03CE", "\\u03B1", "\\u03B2", "\\u03B3",
    "\\u03B4", "\\u03B5", "\\u03B6", "\\u03B7", "\\u03B8", "\\u03B9", "\\u03BA", "\\u03BB",
    "\\u03BC", "\\u03BD", "\\u03BE", "\\u03BF", "\\u03C0", "\\u03C1", "\\u03C3", "\\u03C4",
    "\\u03C5", "\\u03C6", "\\u03C7", "\\u03C8", "\\u03C9", "\\u03CA", "\\u03CB", "\\u03C9",
    "k", "\\u00E5">>
\* the characters of the model that have the property Cased (beyond A-Z and
\* a-z) and those that have the property Case_Ignorable, from
\* DerivedCoreProperties.txt
Cased ==
  {"\\u00AA", "\\u00B5", "\\u00BA", "\\u00C0", "\\u00C1", "\\u00C2", "\\u00C3", "\\u00C4",
   "\\u00C5", "\\u00C6", "\\u00C7", "\\u00C8", "\\u00C9", "\\u00CA", "\\u00CB", "\\u00CC",
   "\\u00CD", "\\u00CE", "\\u00CF", "\\u00D0", "\\u00D1", "\\u00D2", "\\u00D3", "\\u00D4",
   "\\u00D5", "\\u00D6", "\\u00D8", "\\u00D9", "\\u00DA", "\\u00DB", "\\u00DC", "\\u00DD",
   "\\u00DE", "\\u00DF", "\\u00E0", "\\u00E1", "\\u00E2", "\\u00E3", "\\u00E4", "\\u00E5",
   "\\u00E6", "\\u00E7", "\\u00E8", "\\u00E9", "\\u00EA", "\\u00EB", "\\u00EC", "\\u00ED",
   "\\u00EE", "\\u00EF", "\\u00F0", "\\u00F1", "\\u00F2", "\\u00F3", "\\u00F4", "\\u00F5",
   "\\u00F6", "\\u00F8", "\\u00F9", "\\u00FA", "\\u00FB", "\\u00FC", "\\u00FD", "\\u00FE",
   "\\u00FF", "\\u0130", "\\u0386", "\\u0388", "\\u0389", "\\u038A", "\\u038C", "\\u038E",
   "\\u038F", "\\u0390", "\\u0391", "\\u0392", "\\u0393", "\\u0394", "\\u0395", "\\u0396",
   "\\u0397", "\\u0398", "\\u0399", "\\u039A", "\\u039B", "\\u039C", "\\u039D", "\\u039E",
   "\\u039F", "\\u03A0", "\\u03A1", "\\u03A3", "\\u03A4", "\\u03A5", "\\u03A6", "\\u03A7",
   "\\u03A8", "\\u03A9", "\\u03AA", "\\u03AB", "\\u03AC", "\\u03AD", "\\u03AE", "\\u03AF",
   "\\u03B0", "\\u03B1", "\\u03B2", "\\u03B3", "\\u03B4", "\\u03B5", "\\u03B6", "\\u03B7",
   "\\u03B8", "\\u03B9", "\\u03BA", "\\u03BB", "\\u03BC", "\\u03BD", "\\u03BE", "\\u03BF",
   "\\u03C0", "\\u03C1", "\\u03C2", "\\u03C3", "\\u03C4", "\\u03C5", "\\u03C6", "\\u03C7",
   "\\u03C8", "\\u03C9", "\\u03CA", "\\u03CB", "\\u03CC", "\\u03CD", "\\u03CE", "\\u2126",
   "\\u212A", "\\u212B"}
CaseIgnorable ==
  {"'", ".", ":", "^", "\\u0060", "\\u00A8", "\\u00AD", "\\u00AF",
   "\\u00B4", "\\u00B7", "\\u00B8", "\\u0307", "\\u0384", "\\u0385", "\\u0387", "\\uFEFF"}

CapitalSigma == "\\u03A3"
FinalSmallSigma == "\\u03C2"
CapitalIDotted == "\\u0130"
CombiningDot == "\\u0307"

isCased(c) ==
  \/ c \in Cased
  \/ \E i \in 1..Len(UC) : UC[i] = c \/ LC[i] = c

\* String.prototype.toLowerCase of the one-character string c: a string, of two
\* code units for U+0130
toLowerChar(c) ==
  IF c = CapitalIDotted THEN <<"i", CombiningDot>>
  ELSE IF \E i \in 1..Len(UC) : UC[i] = c
  THEN <<LC[CHOOSE i \in 1..Len(UC) : UC[i] = c]>>
  ELSE IF \E i \in 1..Len(UCX) : UCX[i] = c
  THEN <<LCX[CHOOSE i \in 1..Len(UCX) : UCX[i] = c]>>
  ELSE <<c>>

\* the condition Final_Sigma of SpecialCasing.txt at position i of s: a cased
\* letter before it and none after it, case-ignorable characters skipped
FinalSigma(s, i) ==
  /\ \E j \in 1..(i - 1) :
       isCased(s[j]) /\ \A k \in (j + 1)..(i - 1) : s[k] \in CaseIgnorable
  /\ ~\E j \in (i + 1)..Len(s) :
        isCased(s[j]) /\ \A k \in (i + 1)..(j - 1) : s[k] \in CaseIgnorable

\* String.prototype.toLowerCase: the Unicode default case conversion with the
\* language-independent rules of SpecialCasing.txt
toLowerCase(s) ==
  LET F[i \in 0..Len(s)] ==
        IF i = 0 THEN <<>>
        ELSE F[i - 1] \o (IF s[i] = CapitalSigma /\ FinalSigma(s, i)
                          THEN <<FinalSmallSigma>>
                          ELSE toLowerChar(s[i]))
  IN F[Len(s)]

trim(s) ==
  LET keep == {i \in 1..Len(s) : s[i] \notin WhiteSpace}
  IN IF keep = {} THEN <<>>
     ELSE LET lo == CHOOSE i \in keep : \A j \in keep : i <= j
              hi == CHOOSE i \in keep : \A j \in keep : i >= j
          IN SubSeq(s, lo, hi)

startsWith(s, p) == Len(s) >= Len(p) /\ SubSeq(s, 1, Len(p)) = p

includes(s, q) ==
  \E i \in 0..(Len(s) - Len(q)) : SubSeq(s, i + 1, i + Len(q)) = q

\* String(n) for n >= 0
RECURSIVE NumToString(_)
NumToString(n) ==
  IF n < 10 THEN <<DigitChars[n + 1]>>
  ELSE NumToString(n \div 10) \o <<DigitChars[(n % 10) + 1]>>

\* path.extname of a file name without directory part: from the last "." to the
\* end, empty when there is no "." or the only "." is the first character
extname(name) ==
  LET dots == {i \in 1..Len(name) : name[i] = "."}
  IN IF dots = {} \/ name = <<".", ".">> THEN <<>>
     ELSE LET d == CHOOSE i \in dots : \A j \in dots : i >= j
          IN IF d = 1 THEN <<>> ELSE SubSeq(name, d, Len(name))

\* path.parse(name).name
parseName(name) == SubSeq(name, 1, Len(name) - Len(extname(name)))

\* s.split(sep) for a one-character separator
RECURSIVE split(_, _)
split(s, sep) ==
  LET at == {i \in 1..Len(s) : s[i] = sep}
  IN IF at = {} THEN <<s>>
     ELSE LET i == CHOOSE x \in at : \A y \in at : x <= y
          IN <<SubSeq(s, 1, i - 1)>> \o split(SubSeq(s, i + 1, Len(s)), sep)

\* ------------------------------------------------------ names of the source
uploadsDir == <<"u","p","l","o","a","d","s">>
videos == <<"v","i","d","e","o","s">>
audios == <<"a","u","d","i","o","s">>
thumbnailsDir == <<"t","h","u","m","b","n","a","i","l","s">>
tempDir == <<"t","e","m","p">>
mediaMount == <<"/","m","e","d","i","a">>
thumbUrlPrefix == <<"/","m","e","d","i","a","/","t","h","u","m","b","n","a","i","l","s","/">>
videoPrefix == <<"v","i","d","e","o">>
Unknown == <<"U","n","k","n","o","w","n">>

\* ------------------------------------------------------- request inputs
NoFile == [present |-> FALSE, mimetype |-> <<>>, originalname |-> <<>>]
File(m, n) == [present |-> TRUE, mimetype |-> m, originalname |-> n]

VideoFile == File(<<"v","i","d","e","o","/","m","p","4">>, <<"a",".","m","p","4">>)
AudioFile == File(<<"a","u","d","i","o","/","m","p","e","g">>, <<"b",".","m","p","3">>)
ImageFile == File(<<"i","m","a","g","e","/","p","n","g">>, <<"c",".","p","n","g">>)
ThumbFile == File(<<"i","m","a","g","e","/","p","n","g">>, <<"t",".","p","n","g">>)

Title == <<"S","u","n">>
User == <<"A","l">>

Upload(m, t, v, u) == [media |-> m, thumbnail |-> t, videoName |-> v, username |-> u]

\* the multipart requests the model submits
UploadInputs ==
  { Upload(VideoFile, ThumbFile, Title, User),
    Upload(ImageFile, NoFile, undefined, <<>>),
    Upload(NoFile, ThumbFile, Title, User) }

NoUpload == Upload(NoFile, NoFile, undefined, undefined)

Reqs == 1..NumReqs

\* ------------------------------------------------------------------ state
VARIABLES
  now,            \* what the last call of Date.now() returned
  files,          \* the upload directory tree: path |-> content
  metadataFile,   \* media-metadata.json: [exists, content]
  req,            \* req[r]: the parsed multipart request r
  pc,             \* pc[r]: position of request r
  running,        \* the request whose handler occupies the event loop, or 0
  mediaType,      \* locals of the upload handler, per request
  mediaFilename,
  metadataEntry,
  allMetadata,
  resp,           \* resp[r]: status of the response sent to request r, or 0
  out,            \* the listing or search request just served and its answer
  readThrew,      \* readThrew[r]: fs.readFileSync threw in the running handler of r
  faults,         \* the disturbances (throwing I/O calls, crashes, clock set
                  \* back) that have happened so far
  version         \* the version of the server that is deployed: 1 or 2

vars == <<now, files, metadataFile, req, pc, running, mediaType, mediaFilename,
          metadataEntry, allMetadata, resp, out, readThrew, faults, version>>

\* ------------------------------------------------- the metadata document
\* The document is a sequence of tokens: "[", one token per record, "]".
NoRec == [filename |-> <<>>, videoName |-> <<>>, username |-> <<>>, type |-> <<>>,
          thumbnail |-> null, uploadedAt |-> 0]
TokOpen == [tok |-> "[", val |-> NoRec]
TokClose == [tok |-> "]", val |-> NoRec]
TokRec(x) == [tok |-> "rec", val |-> x]

\* JSON.stringify(data, null, 2) of an array of records
stringify(data) ==
  <<TokOpen>> \o [i \in 1..Len(data) |-> TokRec(data[i])] \o <<TokClose>>

\* JSON.parse: [ok, value]; ok is FALSE where JSON.parse throws
parse(text) ==
  IF /\ Len(text) >= 2
     /\ text[1].tok = "["
     /\ text[Len(text)].tok = "]"
     /\ \A i \in 2..(Len(text) - 1) : text[i].tok = "rec"
  THEN [ok |-> TRUE, value |-> [i \in 1..(Len(text) - 2) |-> text[i + 1].val]]
  ELSE [ok |-> FALSE, value |-> <<>>]

\* what fs.readFileSync does when readMetadata calls it
ReadOutcomes == {"ok", "throws"}

\* readMetadata that keeps the records a cut-short document still holds
readMetadata_lenient(d, io) ==
  IF ~d.exists THEN <<>>
  ELSE [i \in 1..Cardinality({j \in 1..Len(d.content) : d.content[j].tok = "rec"}) |->
          d.content[i + 1].val]

\* readMetadata() on the document d, fs.readFileSync having outcome io: the
\* catch clause takes a throwing read as it takes a throwing JSON.parse
readMetadata(d, io) ==
  IF ~d.exists THEN <<>>
  ELSE IF io = "throws" THEN <<>>
  ELSE IF parse(d.content).ok THEN parse(d.content).value ELSE <<>>

\* the document after saveMetadata(data) returned
saveMetadata(data) == [exists |-> TRUE, content |-> stringify(data)]

\* a write that fails only after the whole text is on disk
partialWrite_complete(data, k) == [exists |-> TRUE, content |-> stringify(data)]

\* the document after writeFileSync opened (and truncated) the file and wrote
\* only the first k tokens of the new text
partialWrite(data, k) == [exists |-> TRUE, content |-> SubSeq(stringify(data), 1, k)]

\* ------------------------------------------------------------ the disk
\* a move that removes the source and creates no target
rename_loses(f, from, to) == [p \in DOMAIN f \ {from} |-> f[p]]

rename(f, from, to) ==
  [p \in (DOMAIN f \ {from}) \cup {to} |-> IF p = to THEN f[from] ELSE f[p]]

create(f, p, bytes) ==
  [q \in DOMAIN f \cup {p} |-> IF q = p THEN bytes ELSE f[q]]

\* multer's staging name of field fld of request r (multer draws a fresh name)
tempName(r, fld) == NumToString(r) \o <<fld>>
tempPath(r, fld) == <<uploadsDir, tempDir, tempName(r, fld)>>

mediaPathOf(type, filename) == <<uploadsDir, type, filename>>
thumbPathOf(filename) == <<uploadsDir, thumbnailsDir, filename>>

\* express.static mounted at /media on uploads/: the file a URL is served from
staticPath(url) ==
  <<uploadsDir>> \o Tail(split(SubSeq(url, Len(mediaMount) + 1, Len(url)), "/"))

\* GET url through the static route: [status, body]
staticGet(url, f) ==
  IF startsWith(url, mediaMount) /\ staticPath(url) \in DOMAIN f
  THEN [status |-> 200, body |-> f[staticPath(url)]]
  ELSE [status |-> 404, body |-> <<>>]

\* ------------------------------------------------- upload handler, pure parts
\* classification by the 'audio' prefix instead
classify_byAudio(mimetype) ==
  IF startsWith(mimetype, <<"a","u","d","i","o">>) THEN audios ELSE videos

classify(mimetype) == IF startsWith(mimetype, videoPrefix) THEN videos ELSE audios

makeFilename(t, originalname) == NumToString(t) \o extname(originalname)

\* the two versions of the server in server.js
Versions == {1, 2}

\* the thumbnail name of the second version: the media file name without its
\* extension, and the extension of the thumbnail
thumbFilenameOf(mFilename, thumbOriginal) == parseName(mFilename) \o extname(thumbOriginal)

\* the thumbnail name of the first version: the whole media file name,
\* extension included, and the extension of the thumbnail
thumbFilenameOf_v1(mFilename, thumbOriginal) == mFilename \o extname(thumbOriginal)

\* const thumbFilename = ... in version v of the handler
thumbFilenameIn(v, mFilename, thumbOriginal) ==
  IF v = 1 THEN thumbFilenameOf_v1(mFilename, thumbOriginal)
  ELSE thumbFilenameOf(mFilename, thumbOriginal)

makeEntry(r0, type, filename, t) ==
  [filename |-> filename,
   videoName |-> OrElse(r0.videoName, r0.media.originalname),
   username |-> OrElse(r0.username, Unknown),
   type |-> type,
   thumbnail |-> null,
   uploadedAt |-> t]

withThumbnail(entry, thumbFilename) ==
  [entry EXCEPT !.thumbnail = thumbUrlPrefix \o thumbFilename]

\* an append that forgets the collection read
push_forgets(list, x) == <<x>>

push(list, x) == Append(list, x)

\* ------------------------------------------------- listing and search, pure
\* Array.prototype.filter: the elements of s at the indices in keep, in order
filterSeq(s, keep) ==
  LET F[i \in 0..Len(s)] ==
        IF i = 0 THEN <<>>
        ELSE IF i \in keep THEN Append(F[i - 1], s[i]) ELSE F[i - 1]
  IN F[Len(s)]

\* the comparator a.uploadedAt - b.uploadedAt
insertDesc_ascending(sorted, x) ==
  LET before == {i \in 1..Len(sorted) : x.uploadedAt - sorted[i].uploadedAt >= 0}
      k == IF before = {} THEN 0 ELSE CHOOSE i \in before : \A j \in before : i >= j
  IN SubSeq(sorted, 1, k) \o <<x>> \o SubSeq(sorted, k + 1, Len(sorted))

\* insert x behind every element the comparator does not put after it
insertDesc(sorted, x) ==
  LET before == {i \in 1..Len(sorted) : sorted[i].uploadedAt - x.uploadedAt >= 0}
      k == IF before = {} THEN 0 ELSE CHOOSE i \in before : \A j \in before : i >= j
  IN SubSeq(sorted, 1, k) \o <<x>> \o SubSeq(sorted, k + 1, Len(sorted))

\* Array.prototype.sort((a, b) => b.uploadedAt - a.uploadedAt): a stable sort
sortDesc(s) ==
  LET F[i \in 0..Len(s)] == IF i = 0 THEN <<>> ELSE insertDesc(F[i - 1], s[i])
  IN F[Len(s)]

typeMatches(item, type) == item.type = type

\* a served listing or search request: the request, the outcome a read of the
\* document has while it is served, and the answer
NoResponse ==
  [route |-> "", arg |-> <<>>, io |-> "ok", status |-> 0, body |-> <<>>, error |-> <<>>]
observed(route, arg, io, h) ==
  [route |-> route, arg |-> arg, io |-> io,
   status |-> h.status, body |-> h.body, error |-> h.error]
jsonOk(body) == [status |-> 200, body |-> body, error |-> <<>>]
InvalidType == <<"I","n","v","a","l","i","d"," ","m","e","d","i","a"," ","t","y","p","e">>

\* GET /media/:type
listHandler(type, d, io) ==
  IF type \notin {videos, audios}
  THEN [status |-> 400, body |-> <<>>, error |-> InvalidType]
  ELSE LET all == readMetadata(d, io)
           keep == {i \in 1..Len(all) : typeMatches(all[i], type)}
       IN jsonOk(sortDesc(filterSeq(all, keep)))

\* req.query.q when the URL repeats the parameter (?q=a&q=b): an array
QueryArray == <<"array">>

isString(v) == v \notin {undefined, null, QueryArray}

\* (req.query.q || '').toLowerCase().trim(), for a query that is a string or absent
normalizeQuery(q) == trim(toLowerCase(OrElse(q, <<>>)))

NotAFunction ==
  <<"T","y","p","e","E","r","r","o","r">>

searchMatches(item, query) ==
  /\ item.type = videos
  /\ \/ includes(toLowerCase(item.videoName), query)
     \/ includes(toLowerCase(item.username), query)

\* GET /media/videos/search?q=
\* an array is truthy and has no toLowerCase: the handler throws a TypeError
\* and express answers 500
searchHandler(q, d, io) ==
  IF ~Falsy(q) /\ ~isString(q)
  THEN [status |-> 500, body |-> <<>>, error |-> NotAFunction]
  ELSE LET query == normalizeQuery(q)
       IN IF Falsy(query) THEN jsonOk(<<>>)
          ELSE LET allMeta == readMetadata(d, io)
                   keep == {i \in 1..Len(allMeta) : searchMatches(allMeta[i], query)}
               IN jsonOk(filterSeq(allMeta, keep))

\* ----------------------------------------------------------------- inputs
ListTypes == {videos, audios, thumbnailsDir}
Queries == {undefined, QueryArray, <<>>, <<" ", "\r", "\\uFEFF">>,
            <<"s","u","n","\r","\n">>, <<"S","U","N">>, <<"\f","A","L","\\u00A0">>,
            <<"\\u212A">>, <<"m","p">>, <<"\\u00E9","C">>, <<"I">>,
            <<CapitalSigma>>}

\* --------------------------------------------------------------- initially
Init ==
  /\ now = 1
  /\ files = <<>>
  /\ metadataFile = [exists |-> FALSE, content |-> <<>>]
  /\ req = [r \in Reqs |-> NoUpload]
  /\ pc = [r \in Reqs |-> "idle"]
  /\ running = 0
  /\ mediaType = [r \in Reqs |-> <<>>]
  /\ mediaFilename = [r \in Reqs |-> <<>>]
  /\ metadataEntry = [r \in Reqs |-> NoRec]
  /\ allMetadata = [r \in Reqs |-> <<>>]
  /\ resp = [r \in Reqs |-> 0]
  /\ out = NoResponse
  /\ readThrew = [r \in Reqs |-> FALSE]
  /\ faults = 0
  /\ version \in Versions

InFlight(r) == pc[r] \notin {"idle", "done", "crashed"}

\* a handler that starts while another one is running
canStart_unserialized(r) == pc[r] = "queued"

\* The handler of r may start: the event loop runs one callback at a time, and
\* the upload handler makes only synchronous calls.
canStart(r) == pc[r] = "queued" /\ running = 0

\* the steps of the running handler of r
inHandler(r, at) == pc[r] = at /\ running = r

\* ------------------------------------------------------------------ actions
\* The values of the clock: two, for the same millisecond, a later and an
\* earlier one.
Times == {1, 2}

\* Date.now() returns t: the wall clock does not run backwards between two
\* calls unless the system time was set back (by NTP or by hand) in between
DateNow(t) ==
  /\ t \in Times
  /\ t < now => faults < MaxFaults
  /\ now' = t

\* the disturbances of a step in which Date.now() returned t and n calls threw
disturbed(t, n) == faults + n + (IF t < now THEN 1 ELSE 0)

\* multer has staged the files of request r under uploads/temp and hands the
\* request to the handler (requests are numbered in the order they arrive).
Arrive(r, u) ==
  /\ pc[r] = "idle"
  /\ IF r = 1 THEN TRUE ELSE pc[r - 1] # "idle"
  /\ req' = [req EXCEPT ![r] = u]
  /\ files' =
       LET f1 == IF u.media.present THEN create(files, tempPath(r, "m"), <<r, "m">>)
                 ELSE files
       IN IF u.thumbnail.present THEN create(f1, tempPath(r, "t"), <<r, "t">>) ELSE f1
  /\ pc' = [pc EXCEPT ![r] = "queued"]
  /\ UNCHANGED <<now, metadataFile, running, mediaType, mediaFilename,
                 metadataEntry, allMetadata, resp, readThrew, faults>>
  /\ out' = NoResponse
  /\ UNCHANGED version

\* if (!mediaFile) return res.status(400).send(...)
Reject(r) ==
  /\ canStart(r)
  /\ ~req[r].media.present
  /\ resp' = [resp EXCEPT ![r] = 400]
  /\ pc' = [pc EXCEPT ![r] = "done"]
  /\ UNCHANGED <<now, files, metadataFile, req, running, mediaType, mediaFilename,
                 metadataEntry, allMetadata, readThrew, faults>>
  /\ out' = NoResponse
  /\ UNCHANGED version

\* classification, file name from Date.now(), fs.renameSync(mediaFile.path, mediaPath)
MoveMedia(r, t) ==
  /\ canStart(r)
  /\ req[r].media.present
  /\ DateNow(t)
  /\ faults' = disturbed(t, 0)
  /\ LET type == classify(req[r].media.mimetype)
         name == makeFilename(t, req[r].media.originalname)
     IN /\ mediaType' = [mediaType EXCEPT ![r] = type]
        /\ mediaFilename' = [mediaFilename EXCEPT ![r] = name]
        /\ files' = rename(files, tempPath(r, "m"), mediaPathOf(type, name))
  /\ running' = r
  /\ pc' = [pc EXCEPT ![r] = "entry"]
  /\ UNCHANGED <<metadataFile, req, metadataEntry, allMetadata, resp, readThrew>>
  /\ out' = NoResponse
  /\ UNCHANGED version

\* the handler throws, after f disturbances: express answers 500 and the event
\* loop is free again
throwAfter(r, f) ==
  /\ f < MaxFaults
  /\ faults' = f + 1
  /\ resp' = [resp EXCEPT ![r] = 500]
  /\ pc' = [pc EXCEPT ![r] = "done"]
  /\ running' = 0
  /\ allMetadata' = [allMetadata EXCEPT ![r] = <<>>]
  /\ readThrew' = [readThrew EXCEPT ![r] = FALSE]

throw(r) == throwAfter(r, faults)

\* the file name is made from Date.now(), and fs.renameSync of the media file
\* throws (the file name is lost with the handler)
MoveMediaFails(r, t) ==
  /\ canStart(r)
  /\ req[r].media.present
  /\ DateNow(t)
  /\ throwAfter(r, disturbed(t, 0))
  /\ UNCHANGED <<files, metadataFile, req, mediaType, mediaFilename, metadataEntry>>
  /\ out' = NoResponse
  /\ UNCHANGED version

\* metadataEntry with uploadedAt from Date.now(), the thumbnail move when a
\* thumbnail was submitted, and
\* const allMetadata = readMetadata(); allMetadata.push(metadataEntry), where
\* the fs.readFileSync of an existing document has outcome io
BuildEntry(r, io, t) ==
  /\ inHandler(r, "entry")
  /\ DateNow(t)
  /\ io = "throws" => metadataFile.exists
  /\ faults' = disturbed(t, IF io = "throws" THEN 1 ELSE 0)
  /\ faults' <= MaxFaults
  /\ readThrew' = [readThrew EXCEPT ![r] = (io = "throws")]
  /\ LET entry == makeEntry(req[r], mediaType[r], mediaFilename[r], t)
         thumbFilename ==
           thumbFilenameIn(version, mediaFilename[r], req[r].thumbnail.originalname)
     IN IF req[r].thumbnail.present
        THEN /\ files' = rename(files, tempPath(r, "t"), thumbPathOf(thumbFilename))
             /\ metadataEntry' = [metadataEntry EXCEPT ![r] = withThumbnail(entry, thumbFilename)]
        ELSE /\ files' = files
             /\ metadataEntry' = [metadataEntry EXCEPT ![r] = entry]
  /\ allMetadata' =
       [allMetadata EXCEPT ![r] = push(readMetadata(metadataFile, io), metadataEntry'[r])]
  /\ pc' = [pc EXCEPT ![r] = "save"]
  /\ UNCHANGED <<metadataFile, req, running, mediaType, mediaFilename, resp>>
  /\ out' = NoResponse
  /\ UNCHANGED version

\* metadataEntry, and fs.renameSync of the thumbnail throws
MoveThumbFails(r, t) ==
  /\ inHandler(r, "entry")
  /\ req[r].thumbnail.present
  /\ DateNow(t)
  /\ metadataEntry' =
       [metadataEntry EXCEPT ![r] = makeEntry(req[r], mediaType[r], mediaFilename[r], t)]
  /\ throwAfter(r, disturbed(t, 0))
  /\ UNCHANGED <<files, metadataFile, req, mediaType, mediaFilename>>
  /\ out' = NoResponse
  /\ UNCHANGED version

\* saveMetadata(allMetadata); res.json({ message: 'Upload successful.' })
Save(r) ==
  /\ inHandler(r, "save")
  /\ metadataFile' = saveMetadata(allMetadata[r])
  /\ resp' = [resp EXCEPT ![r] = 200]
  /\ pc' = [pc EXCEPT ![r] = "done"]
  /\ running' = 0
  /\ allMetadata' = [allMetadata EXCEPT ![r] = <<>>]
  /\ readThrew' = [readThrew EXCEPT ![r] = FALSE]
  /\ UNCHANGED <<now, files, req, mediaType, mediaFilename, metadataEntry, faults>>
  /\ out' = NoResponse
  /\ UNCHANGED version

\* fs.writeFileSync throws before it opened the file
SaveFailsOpen(r) ==
  /\ inHandler(r, "save")
  /\ throw(r)
  /\ UNCHANGED <<now, files, metadataFile, req, mediaType, mediaFilename,
                 metadataEntry>>
  /\ out' = NoResponse
  /\ UNCHANGED version

\* fs.writeFileSync throws after it truncated the file and wrote k tokens (all
\* of them when it is the closing of the file that fails)
SaveFailsPartial(r, k) ==
  /\ inHandler(r, "save")
  /\ k <= Len(stringify(allMetadata[r]))
  /\ metadataFile' = partialWrite(allMetadata[r], k)
  /\ throw(r)
  /\ UNCHANGED <<now, files, req, mediaType, mediaFilename, metadataEntry>>
  /\ out' = NoResponse
  /\ UNCHANGED version

\* the process dies and is started again: no request in flight is answered
crashed ==
  /\ faults < MaxFaults
  /\ faults' = faults + 1
  /\ pc' = [r \in Reqs |-> IF InFlight(r) THEN "crashed" ELSE pc[r]]
  /\ running' = 0
  /\ allMetadata' = [r \in Reqs |-> <<>>]
  /\ readThrew' = [r \in Reqs |-> FALSE]

Crash ==
  /\ \E r \in Reqs : InFlight(r)
  /\ crashed
  /\ UNCHANGED <<now, files, metadataFile, req, mediaType, mediaFilename,
                 metadataEntry, resp>>
  /\ out' = NoResponse
  /\ UNCHANGED version

\* the process dies inside fs.writeFileSync, k tokens written, or, all tokens
\* written, before res.json has sent the answer
CrashInSave(k) ==
  /\ running # 0
  /\ pc[running] = "save"
  /\ k <= Len(stringify(allMetadata[running]))
  /\ metadataFile' = partialWrite(allMetadata[running], k)
  /\ crashed
  /\ UNCHANGED <<now, files, req, mediaType, mediaFilename, metadataEntry, resp>>
  /\ out' = NoResponse
  /\ UNCHANGED version

\* GET /media/:type (a request is served only between handlers); io is the
\* outcome of fs.readFileSync on the document
List(type, io) ==
  /\ running = 0
  /\ io = "throws" => metadataFile.exists
  /\ out' = observed("list", type, io, listHandler(type, metadataFile, io))
  /\ UNCHANGED <<now, files, metadataFile, req, pc, running, mediaType, mediaFilename,
                 metadataEntry, allMetadata, resp, readThrew, faults, version>>

\* GET /media/videos/search
Search(q, io) ==
  /\ running = 0
  /\ io = "throws" => metadataFile.exists
  /\ out' = observed("search", q, io, searchHandler(q, metadataFile, io))
  /\ UNCHANGED <<now, files, metadataFile, req, pc, running, mediaType, mediaFilename,
                 metadataEntry, allMetadata, resp, readThrew, faults, version>>

MaxTokens == NumReqs + 2

Next ==
  \/ \E r \in Reqs, u \in UploadInputs : Arrive(r, u)
  \/ \E r \in Reqs : Reject(r)
  \/ \E r \in Reqs, t \in Times : MoveMedia(r, t)
  \/ \E r \in Reqs, t \in Times : MoveMediaFails(r, t)
  \/ \E r \in Reqs, io \in ReadOutcomes, t \in Times : BuildEntry(r, io, t)
  \/ \E r \in Reqs, t \in Times : MoveThumbFails(r, t)
  \/ \E r \in Reqs : Save(r)
  \/ \E r \in Reqs : SaveFailsOpen(r)
  \/ \E r \in Reqs, k \in 0..MaxTokens : SaveFailsPartial(r, k)
  \/ Crash
  \/ \E k \in 0..MaxTokens : CrashInSave(k)

Spec == Init /\ [][Next]_vars

\* ------------------------------------------- listing and search on any document
\* The documents a sequence of uploads can leave behind: up to MaxRecs records,
\* in any order of their time stamps (Date.now() is wall-clock time, and the
\* document outlives the process), or no document at all.
\* a video by an unnamed uploader, an audio file with the same title, and a
\* video whose title and uploader are not ASCII: "\u00C9cole \u0391\u03A3"
\* (E with acute; capital alpha, capital sigma) by "\u0130\u212A" (I with dot
\* above, Kelvin sign)
TitleEcole == <<"\\u00C9", "c", "o", "l", "e", " ", "\\u0391", CapitalSigma>>
UserIK == <<CapitalIDotted, "\\u212A">>

SunVideo == Upload(VideoFile, ThumbFile, Title, undefined)
SunAudio == Upload(AudioFile, NoFile, Title, User)
EcoleVideo == Upload(VideoFile, NoFile, TitleEcole, UserIK)

\* the uploads the records of the documents come from, with their time stamps
QUploads == {<<SunVideo, 1>>, <<SunVideo, 2>>, <<SunAudio, 2>>, <<EcoleVideo, 3>>}

\* the record version v of the handler stores for upload u at time t
entryOf(v, u, t) ==
  LET type == classify(u.media.mimetype)
      name == makeFilename(t, u.media.originalname)
      entry == makeEntry(u, type, name, t)
  IN IF u.thumbnail.present
     THEN withThumbnail(entry, thumbFilenameIn(v, name, u.thumbnail.originalname))
     ELSE entry

QRecords(v) == {entryOf(v, p[1], p[2]) : p \in QUploads}
QLists(v) == UNION {[1..n -> QRecords(v)] : n \in 0..MaxRecs}
QDocs(v) ==
  {saveMetadata(l) : l \in QLists(v)} \cup {[exists |-> FALSE, content |-> <<>>]}

InitQ ==
  /\ version \in Versions
  /\ now = 1
  /\ files = <<>>
  /\ metadataFile \in QDocs(version)
  /\ req = [r \in Reqs |-> NoUpload]
  /\ pc = [r \in Reqs |-> "idle"]
  /\ running = 0
  /\ mediaType = [r \in Reqs |-> <<>>]
  /\ mediaFilename = [r \in Reqs |-> <<>>]
  /\ metadataEntry = [r \in Reqs |-> NoRec]
  /\ allMetadata = [r \in Reqs |-> <<>>]
  /\ resp = [r \in Reqs |-> 0]
  /\ out = NoResponse
  /\ readThrew = [r \in Reqs |-> FALSE]
  /\ faults = 0

NextQ ==
  \/ \E type \in ListTypes, io \in ReadOutcomes : List(type, io)
  \/ \E q \in Queries, io \in ReadOutcomes : Search(q, io)

SpecQ == InitQ /\ [][NextQ]_vars

\* ======================================================================
\* Claims
\* ======================================================================

\* the title and uploader a request asks for, with the defaults for omitted or
\* empty fields
wantedTitle(r0) ==
  IF r0.videoName = undefined \/ r0.videoName = <<>> THEN r0.media.originalname
  ELSE r0.videoName
wantedUploader(r0) ==
  IF r0.username = undefined \/ r0.username = <<>> THEN Unknown ELSE r0.username
wantedKind(r0) ==
  IF Len(r0.media.mimetype) >= 5 /\ SubSeq(r0.media.mimetype, 1, 5) = <<"v","i","d","e","o">>
  THEN videos ELSE audios
otherKind(kind) == IF kind = videos THEN audios ELSE videos

occurs(x, s) == \E i \in 1..Len(s) : s[i] = x
count(x, s) == Cardinality({i \in 1..Len(s) : s[i] = x})

answered200(r) == resp[r] # 200 /\ resp'[r] = 200

\* the collection the document d holds: what readMetadata returns when its read
\* of the document does not fail
persisted(d) == readMetadata(d, "ok")

\* C1: when an upload that carries a media file is answered with success, the
\* listing of the kind its MIME type gives (videos for video/..., audios for every
\* other type, images included), taken right after the answer, contains the
\* upload's record, with the submitted title and uploader or their defaults
\* (original file name, 'Unknown'); the listing of the other kind does not
\* contain that record.  (The listings are those of requests that read the
\* document; what a listing answers when it cannot is part of C8.)
C1_UploadListed ==
  [][\A r \in Reqs :
       answered200(r) =>
         LET mine == listHandler(wantedKind(req[r]), metadataFile', "ok")
             other == listHandler(otherKind(wantedKind(req[r])), metadataFile', "ok")
         IN /\ req[r].media.present
            /\ mine.status = 200
            /\ occurs(metadataEntry[r], mine.body)
            /\ metadataEntry[r].videoName = wantedTitle(req[r])
            /\ metadataEntry[r].username = wantedUploader(req[r])
            /\ other.status = 200
            /\ ~occurs(metadataEntry[r], other.body)]_vars

\* an image uploaded without title and uploader is listed under audios with the
\* defaults
C1_Witness ==
  \E r \in Reqs :
    /\ resp[r] = 200
    /\ req[r].media = ImageFile
    /\ req[r].videoName = undefined
    /\ req[r].username = <<>>
    /\ occurs(metadataEntry[r], listHandler(audios, metadataFile, "ok").body)
    /\ metadataEntry[r].videoName = ImageFile.originalname
    /\ metadataEntry[r].username = Unknown

\* C2 as stated: two uploads handled concurrently can interleave between the
\* metadata read and the save: whenever one handler has read the collection and
\* not yet saved it while another upload waits for its handler, that handler can
\* run (and read the collection before the first has saved).
C2_HandlersInterleave ==
  \A r1 \in Reqs, r2 \in Reqs :
    (r1 # r2 /\ pc[r1] = "save" /\ pc[r2] = "queued" /\ req[r2].media.present)
      => ENABLED MoveMedia(r2, now)

\* C2 as amended: the upload handler runs to completion before another handler
\* starts, so no two requests have both read the collection before either saved:
\* a handler that is about to save is the only one inside the handler, and what it
\* is about to write is its own record behind what its readMetadata returned,
\* which is the persisted collection as it stands, or nothing when its read of
\* the document failed.
C2_HandlersSerial ==
  \A r \in Reqs :
    pc[r] \in {"entry", "save"} =>
      /\ running = r
      /\ \A r2 \in Reqs \ {r} : pc[r2] \notin {"entry", "save"}
      /\ pc[r] = "save" =>
           allMetadata[r] =
             Append(IF readThrew[r] THEN <<>> ELSE persisted(metadataFile), metadataEntry[r])

\* two uploads in flight together: one between read and save, the other waiting
C2_Witness ==
  \E r1 \in Reqs, r2 \in Reqs :
    /\ r1 # r2
    /\ pc[r1] = "save"
    /\ pc[r2] = "queued"
    /\ req[r2].media.present

\* C3: no two records of the persisted collection have the same filename.
C3_UniqueFilenames ==
  LET recs == persisted(metadataFile)
  IN \A i \in 1..Len(recs), j \in 1..Len(recs) :
       i # j => recs[i].filename # recs[j].filename

kept(before, after) ==
  \A i \in 1..Len(before) : i <= Len(after) /\ after[i] = before[i]

\* C4 as stated: a record of the persisted collection is in the collection
\* readMetadata returns, unchanged, in every later state, failed or interrupted
\* metadata writes included.
C4_NeverDeleted ==
  [][\A i \in 1..Len(persisted(metadataFile)) :
       occurs(persisted(metadataFile)[i], persisted(metadataFile'))]_vars

writeCutShort == metadataFile' # metadataFile /\ ~parse(metadataFile'.content).ok
writeAfterFailedRead ==
  \E r \in Reqs : pc[r] = "save" /\ readThrew[r] /\ metadataFile' # metadataFile

\* C4 as amended: every step keeps every record of the persisted collection, at
\* its position and with unchanged field values, but for two kinds of step: a
\* metadata write that is cut short (a failed or interrupted fs.writeFileSync),
\* and the write of an upload handler whose read of the document had failed.
C4_KeptUnlessReadOrWriteFailed ==
  [][(~writeCutShort /\ ~writeAfterFailedRead)
       => kept(persisted(metadataFile), persisted(metadataFile'))]_vars

\* a second upload was saved behind the record of the first
C4_Witness ==
  /\ Len(persisted(metadataFile)) = 2
  /\ \A r \in {1, 2} : resp[r] = 200 /\ occurs(metadataEntry[r], persisted(metadataFile))

\* C5: GET /media/:type for videos or audios answers 200 with exactly the records
\* of the collection (the one readMetadata returns to the request: the persisted
\* collection, or the empty one when the read of the document fails) whose type
\* is the requested one, each as often as the collection holds it, ordered by
\* uploadedAt descending.
C5_ListingSortedDesc ==
  (out.route = "list" /\ out.arg \in {videos, audios}) =>
    LET recs == IF out.io = "ok" THEN persisted(metadataFile) ELSE <<>>
    IN /\ out.status = 200
       /\ \A i \in 1..Len(out.body) : out.body[i].type = out.arg
       /\ \A i \in 1..Len(recs) :
            recs[i].type = out.arg => count(recs[i], out.body) = count(recs[i], recs)
       /\ \A i \in 1..Len(out.body) : occurs(out.body[i], recs)
       /\ \A i \in 1..(Len(out.body) - 1) :
            out.body[i].uploadedAt >= out.body[i + 1].uploadedAt

stamps(s) == [i \in 1..Len(s) |-> s[i].uploadedAt]

\* time stamps 1, 3, 2 in the collection are listed as 3, 2, 1
C5_Witness ==
  /\ out.route = "list"
  /\ out.arg = videos
  /\ out.io = "ok"
  /\ stamps(persisted(metadataFile)) = <<1, 3, 2>>
  /\ stamps(out.body) = <<3, 2, 1>>

SmallSigma == "\\u03C3"

\* the letters of s without their case: every character in lower case, whatever
\* stands around it, the final form of small sigma taken as small sigma
caseless(s) ==
  LET F[i \in 0..Len(s)] ==
        IF i = 0 THEN <<>>
        ELSE F[i - 1] \o (IF s[i] = FinalSmallSigma THEN <<SmallSigma>>
                          ELSE toLowerChar(s[i]))
  IN F[Len(s)]

\* text contains q, letter case ignored
containsIgnoringCase(text, q) ==
  \E i \in 0..(Len(caseless(text)) - Len(caseless(q))) :
    SubSeq(caseless(text), i + 1, i + Len(caseless(q))) = caseless(q)

\* q without the white space and line terminators at its ends
RECURSIVE strip(_)
strip(q) ==
  IF q = <<>> THEN q
  ELSE IF Head(q) \in WhiteSpace THEN strip(Tail(q))
  ELSE IF q[Len(q)] \in WhiteSpace THEN strip(SubSeq(q, 1, Len(q) - 1))
  ELSE q

trimmed(q) == IF q = undefined THEN <<>> ELSE strip(q)

wantedBySearch(item, q) ==
  /\ item.type = videos
  /\ \/ containsIgnoringCase(item.videoName, trimmed(q))
     \/ containsIgnoringCase(item.username, trimmed(q))

\* C6: GET /media/videos/search with a text query (or none) answers with
\* exactly the records of type videos of the collection (as in C5) whose title
\* or uploader contains the trimmed query, letter case ignored (in the order of
\* the collection); it returns no record of type audios, and nothing for an
\* empty, missing or whitespace-only query.
C6_SearchVideosOnly ==
  (out.route = "search" /\ out.arg # QueryArray) =>
    LET recs == IF out.io = "ok" THEN persisted(metadataFile) ELSE <<>>
        hits == {i \in 1..Len(recs) : trimmed(out.arg) # <<>> /\ wantedBySearch(recs[i], out.arg)}
    IN /\ out.status = 200
       /\ Len(out.body) = Cardinality(hits)
       /\ \A i \in 1..Len(out.body) : out.body[i].type = videos
       /\ \A i \in hits : out.body[Cardinality({j \in hits : j <= i})] = recs[i]
       /\ trimmed(out.arg) = <<>> => out.body = <<>>

\* C7: the thumbnail path stored in the record of a successful upload, fetched
\* through the static /media route, yields the thumbnail that upload submitted,
\* in every later state.
C7_ThumbnailRoundTrip ==
  \A r \in Reqs :
    (resp[r] = 200 /\ req[r].thumbnail.present) =>
      staticGet(metadataEntry[r].thumbnail, files) = [status |-> 200, body |-> <<r, "t">>]

unreadable(d) == ~d.exists \/ ~parse(d.content).ok
answersEmpty(d, io) ==
  /\ readMetadata(d, io) = <<>>
  /\ listHandler(videos, d, io) = [status |-> 200, body |-> <<>>, error |-> <<>>]
  /\ listHandler(audios, d, io) = [status |-> 200, body |-> <<>>, error |-> <<>>]

\* C8: when the metadata document is absent, cannot be read or is not valid
\* JSON, readMetadata returns the empty sequence, GET /media/videos and GET
\* /media/audios answer 200 with an empty array, and an upload whose handler
\* reads the document in such a state persists a collection holding exactly its
\* own record.
C8_FailsOpen ==
  [][/\ answersEmpty(metadataFile', "throws")
     /\ unreadable(metadataFile') => answersEmpty(metadataFile', "ok")
     /\ \A r \in Reqs :
          (answered200(r) /\ (unreadable(metadataFile) \/ readThrew[r])) =>
            /\ ~unreadable(metadataFile')
            /\ persisted(metadataFile') = <<metadataEntry[r]>>]_vars

\* the handler of an upload could not read a document that holds the record of
\* an earlier upload, and is about to save its own record alone
C8_Witness ==
  \E r1 \in Reqs, r2 \in Reqs :
    /\ r1 # r2
    /\ resp[r1] = 200
    /\ persisted(metadataFile) = <<metadataEntry[r1]>>
    /\ pc[r2] = "save"
    /\ readThrew[r2]
    /\ allMetadata[r2] = <<metadataEntry[r2]>>

mediaMoved(r) == mediaFilename[r] # <<>>
mediaStored(r, f) == mediaPathOf(mediaType[r], mediaFilename[r]) \in DOMAIN f
endsUnanswered(r) ==
  /\ pc[r] \in {"entry", "save"}
  /\ pc'[r] \in {"done", "crashed"}
  /\ resp'[r] # 200
addsNoRecord == persisted(metadataFile') \in {persisted(metadataFile), <<>>}

\* the order of the handler's steps; no step undoes a move; an answer given is final
handlerOrder(r) ==
  /\ (pc'[r] \in {"entry", "save"}) =>
        /\ mediaMoved(r)'
        /\ tempPath(r, "m") \notin DOMAIN files'
  /\ (pc'[r] = "entry" /\ req'[r].thumbnail.present) =>
        tempPath(r, "t") \in DOMAIN files'
  /\ (pc'[r] = "save" /\ req'[r].thumbnail.present) =>
        /\ tempPath(r, "t") \notin DOMAIN files'
        /\ staticPath(metadataEntry'[r].thumbnail) \in DOMAIN files'
  /\ answered200(r) => pc[r] = "save" /\ metadataFile' = saveMetadata(allMetadata[r])
  /\ mediaMoved(r)' => mediaStored(r, files)'
  /\ (resp[r] = 500 \/ pc[r] = "crashed") => (resp'[r] = resp[r] /\ pc'[r] = pc[r])

\* C9 as stated: when the thumbnail move or the metadata save fails, or the
\* process dies, after the media move, the media file stays in the directory of
\* its kind, the persisted collection holds no record for the upload (the step
\* adds none), and the request gets no success answer.
C9_NoRecordWithoutAnswer ==
  [][\A r \in Reqs :
       /\ handlerOrder(r)
       /\ endsUnanswered(r) => (mediaStored(r, files') /\ addsNoRecord)]_vars

\* C9 as amended: the upload handler moves the media file, then the thumbnail,
\* then reads, appends and saves the metadata, then answers; nothing is cleaned
\* up on failure: when the handler ends without a success answer after the media
\* move (a throwing thumbnail move or metadata save, or the death of the
\* process), the media file stays in the directory of its kind (in every later
\* state) and the request never gets a success answer; the step adds no record
\* to the persisted collection unless fs.writeFileSync had written the whole
\* document when the save failed or the process died, in which case the
\* document holds the record of the unanswered upload.
C9_NoCleanup ==
  [][\A r \in Reqs :
       /\ handlerOrder(r)
       /\ endsUnanswered(r) =>
             /\ mediaStored(r, files')
             /\ \/ addsNoRecord
                \/ /\ pc[r] = "save"
                   /\ metadataFile' = saveMetadata(allMetadata[r])
                   /\ occurs(metadataEntry[r], persisted(metadataFile'))]_vars

\* the process died after the whole document was written and before the answer:
\* media file and thumbnail are stored, the collection holds the record, the
\* request is unanswered
C9_Witness ==
  \E r \in Reqs :
    /\ pc[r] = "crashed"
    /\ resp[r] = 0
    /\ req[r].thumbnail.present
    /\ metadataEntry[r].thumbnail # null
    /\ mediaStored(r, files)
    /\ staticPath(metadataEntry[r].thumbnail) \in DOMAIN files
    /\ persisted(metadataFile) = <<metadataEntry[r]>>

\* C10: once an upload request is answered with success or with the 400
\* rejection, none of the files it staged under uploads/temp is left there.
C10_StagingEmptied ==
  \A r \in Reqs :
    resp[r] \in {200, 400} =>
      /\ tempPath(r, "m") \notin DOMAIN files
      /\ tempPath(r, "t") \notin DOMAIN files

====
